---- MODULE Spec2Model ----
(***************************************************************************)
(* Model of examples/pipeline/src/common/Block.cpp: a pipeline stage that  *)
(* replicates one task over n_threads worker threads, each fed from and    *)
(* feeding buffered sockets (bounded channels).                            *)
(*                                                                         *)
(* Block.cpp is modelled statement by statement.  Buffered_Socket.hpp is   *)
(* included by Block.cpp but is not among the sources; its operations      *)
(* (pop, push, stop, reset, bind) are modelled from the specification and  *)
(* from the way Block.cpp calls them (the worker retries while pop/push    *)
(* return true, lines 131 and 139).                                        *)
(***************************************************************************)
EXTENDS Integers, Sequences, FiniteSets, TLC

(* ------------------------------ bounds --------------------------------- *)

\* total number of worker threads over all constructed blocks
MaxWorkers == 2
\* largest buffer_size passed to the constructor
MaxBuf == 2
\* number of items the environment feeds into the pipeline
NumItems == 4
\* the count of polls made while the stop flag is up is kept up to here
MaxPolls == 3

(* ---------------------------- vocabulary ------------------------------- *)

Blocks == {"b1", "b2"}

\* socket names; std::map iterates its keys in this (lexicographic) order
NameOrder == <<"X", "Y", "Z">>
Names == {NameOrder[i] : i \in 1..Len(NameOrder)}

\* the six datatypes dispatched on at lines 67-72 and 99-104
Supported == {"int8", "int16", "int32", "int64", "float32", "float64"}

\* a task given to the constructor: its name and its ordered sockets
Task(nm, tin, tout) ==
    [name |-> nm,
     sockets |-> << [name |-> "X", type |-> "SIN",  datatype |-> tin],
                    [name |-> "Y", type |-> "SOUT", datatype |-> tout] >>]

TaskI32 == Task("double_i32", "int32", "int32")
TaskF64 == Task("double_f64", "float64", "float64")
\* a task whose input socket has a datatype string that is none of the six
TaskOther == Task("double_other", "other", "int32")
Tasks == {TaskI32, TaskF64, TaskOther}
\* no task
NoTask == [name |-> "", sockets |-> <<>>]

\* an item travelling through the pipeline: val is the data, id the index
\* of the fed input it derives from (0: never written by a pop)
Item(i, v) == [id |-> i, val |-> v]
NoItem == Item(0, 0)
\* the k-th input the environment feeds: 3, 4, 5, 6, ...
Input(k) == Item(k, k + 2)

\* what a call of the orchestrator ended with
Ok == [type |-> "ok", msg |-> ""]
InvalidArgument(what) == [type |-> "invalid_argument", msg |-> what]
NotFound == [type |-> "runtime_error", msg |-> "count(name) has to be strictly positive"]
TypeMismatch == [type |-> "runtime_error", msg |-> "get_datatype() has to be equal to typeid(T)"]
Unreachable == [type |-> "runtime_error", msg |-> "This should not happen :-(."]
SystemError == [type |-> "system_error", msg |-> "thread not joinable"]
Terminated == [type |-> "terminate", msg |-> "joinable thread assigned"]

(* ------------------------------- state --------------------------------- *)

VARIABLES
    exists,                \* exists[b]: block b has been constructed
    n_threads,             \* Block::n_threads
    buffer_size,           \* Block::buffer_size
    tasks,                 \* Block::tasks: tasks[b][tid][socket name] = socket data
    buffered_sockets_in,   \* Block::buffered_sockets_in: name -> channel
    buffered_sockets_out,  \* Block::buffered_sockets_out: name -> channel
    buffer,                \* the ring buffers behind the channels
    threads,               \* Block::threads: state of each std::thread handle
    pc,                    \* position of each worker in execute_task
    is_done,               \* the stop flag passed by reference to run()
    orch,                  \* the orchestrator: ready for a call, or aborted
    call,                  \* the orchestrator's last call
    error,                 \* what that call ended with
    fed,                   \* number of inputs fed so far
    drained,               \* drained[b]: items read from b's output channels
                           \* since b was last reset
    hist                   \* observations of the run so far; no action reads
                           \* them except to bound the model

vars == <<exists, n_threads, buffer_size, tasks, buffered_sockets_in,
          buffered_sockets_out, buffer, threads, pc, is_done, orch, call,
          error, fed, drained, hist>>

(* ------------------------------ helpers -------------------------------- *)

\* the keys of a socket map, in std::map iteration order
Keys(m) == SelectSeq(NameOrder, LAMBDA n : n \in DOMAIN m)

BufferIds == Blocks \X {"SIN", "SOUT"} \X Names
NoBuffer == [q |-> <<>>, cap |-> 0, stopped |-> FALSE]

Tids(b) == 0..(n_threads[b] - 1)

\* the orchestrator between two calls, and after std::terminate
Ready == [st |-> "ready"]
Aborted == [st |-> "aborted"]

\* the thread function of worker t has returned
Returned(b, t) == pc[b][t].at = "done"

\* a worker thread that has been started and has not returned yet
Active(b, t) == threads[b][t] = "joinable" /\ ~Returned(b, t) /\ orch.st # "aborted"
AnyActive == \E b \in Blocks : \E t \in Tids(b) : Active(b, t)

RECURSIVE SumThreads(_)
SumThreads(S) ==
    IF S = {} THEN 0
    ELSE LET b == CHOOSE x \in S : TRUE
         IN  n_threads[b] + SumThreads(S \ {b})

\* started: some block has been run; raised: the stop flag has been up;
\* polls[b][t]: calls of pop and push that worker t, still running, has
\* made while the flag was up; pushed[i] and
\* popped[i]: the ids of the items that entered and left buffer i since its
\* last reset; mark[b]: the number of inputs fed when b was last reset;
\* stale[b]: the ids held by b's replicas and channels at that moment;
\* dirty[b]: b has been run since its last reset; task[b]: the task b was
\* constructed from; count[b][t]: what worker t has done since run()
\* started it and until it returns: per input channel, the pops that moved
\* an item less the calls of exec; per output channel, the calls of exec
\* less the pushes that moved an item; the calls of exec with the flag up
ZeroCount ==
    [pops_less_execs |-> [n \in Names |-> 0],
     execs_less_pushes |-> [n \in Names |-> 0],
     late |-> 0]

NoHist ==
    [started |-> FALSE,
     count |-> [b \in Blocks |-> <<>>],
     task |-> [b \in Blocks |-> NoTask],
     raised |-> FALSE,
     polls |-> [b \in Blocks |-> <<>>],
     pushed |-> [i \in BufferIds |-> <<>>],
     popped |-> [i \in BufferIds |-> <<>>],
     mark |-> [b \in Blocks |-> 0],
     stale |-> [b \in Blocks |-> {}],
     dirty |-> [b \in Blocks |-> FALSE]]

(* -------------------------- Block::Block ------------------------------- *)

\* the argument checks without the test of line 28
CtorCheckNoBufferTest(bs, nt) ==
    IF nt = 0 THEN InvalidArgument("n_threads") ELSE Ok

\* lines 21-36: the two argument checks, in the order of the code
CtorCheck(bs, nt) ==
    IF nt = 0 THEN InvalidArgument("n_threads")
    ELSE IF bs < nt THEN InvalidArgument("buffer_size")
    ELSE Ok

\* lines 38-44: one clone of the task per thread, each with its own data
\* for every socket
NewReplicas(task, nt) ==
    [t \in 0..(nt - 1) |->
        [n \in {task.sockets[i].name : i \in 1..Len(task.sockets)} |-> NoItem]]

\* lines 46-73: the channels created for the sockets of one direction; a
\* socket whose datatype matches none of lines 67-72 gets no channel
SocketMap(b, task, dir, bs) ==
    LET idx == {i \in 1..Len(task.sockets) :
                    /\ task.sockets[i].type = dir
                    /\ task.sockets[i].datatype \in Supported}
        nms == {task.sockets[i].name : i \in idx}
        dt(n) == (CHOOSE i \in idx : task.sockets[i].name = n)
    IN  [n \in nms |-> [datatype |-> task.sockets[dt(n)].datatype,
                        type |-> dir,
                        buffer |-> <<b, dir, n>>]]

\* lines 67-72: new Buffered_Socket<T>(s_vec, stype, buffer_size), for
\* every channel of block b
NewBuffers(buf, b, task, bs) ==
    [i \in BufferIds |->
        IF i[1] = b /\ i[2] \in {"SIN", "SOUT"} /\ i[3] \in DOMAIN SocketMap(b, task, i[2], bs)
        THEN [q |-> <<>>, cap |-> bs, stopped |-> FALSE]
        ELSE buf[i]]

\* line 19: threads(n_threads), default-constructed std::thread objects
NewThreads(nt) == [t \in 0..(nt - 1) |-> "not_joinable"]
NewPc(nt) == [t \in 0..(nt - 1) |-> [at |-> "idle", i |-> 0]]

Construct(b, task, bs, nt) ==
    /\ orch.st = "ready"
    /\ ~exists[b]
    /\ ~hist.started
    /\ call' = [op |-> "Block", this |-> b, buffer_size |-> bs, n_threads |-> nt]
    /\ error' = CtorCheck(bs, nt)
    /\ IF CtorCheck(bs, nt) # Ok
       THEN UNCHANGED <<exists, n_threads, buffer_size, tasks, buffered_sockets_in,
                        buffered_sockets_out, buffer, threads, pc, hist>>
       ELSE /\ SumThreads(Blocks) + nt <= MaxWorkers
            /\ exists' = [exists EXCEPT ![b] = TRUE]
            /\ n_threads' = [n_threads EXCEPT ![b] = nt]
            /\ buffer_size' = [buffer_size EXCEPT ![b] = bs]
            /\ tasks' = [tasks EXCEPT ![b] = NewReplicas(task, nt)]
            /\ buffered_sockets_in' =
                  [buffered_sockets_in EXCEPT ![b] = SocketMap(b, task, "SIN", bs)]
            /\ buffered_sockets_out' =
                  [buffered_sockets_out EXCEPT ![b] = SocketMap(b, task, "SOUT", bs)]
            /\ buffer' = NewBuffers(buffer, b, task, bs)
            /\ threads' = [threads EXCEPT ![b] = NewThreads(nt)]
            /\ pc' = [pc EXCEPT ![b] = NewPc(nt)]
            /\ hist' = [hist EXCEPT !.polls[b] = [t \in 0..(nt - 1) |-> 0],
                                    !.count[b] = [t \in 0..(nt - 1) |-> ZeroCount],
                                    !.task[b] = task]
    /\ UNCHANGED <<is_done, orch, fed, drained>>

(* --------------------------- Block::bind ------------------------------- *)

\* lines 153-186
get_buffered_socket_in(b, T, name) ==
    IF name \in DOMAIN buffered_sockets_in[b]
    THEN IF buffered_sockets_in[b][name].datatype = T THEN Ok ELSE TypeMismatch
    ELSE NotFound

\* the lookup of an output channel without the datatype test of line 194
get_buffered_socket_out_untyped(b, T, name) ==
    IF name \in DOMAIN buffered_sockets_out[b] THEN Ok ELSE NotFound

\* the lookup of an output channel with the two failures exchanged
get_buffered_socket_out_swapped(b, T, name) ==
    IF name \in DOMAIN buffered_sockets_out[b]
    THEN IF buffered_sockets_out[b][name].datatype = T THEN Ok ELSE NotFound
    ELSE TypeMismatch

\* lines 188-221
get_buffered_socket_out(b, T, name) ==
    IF name \in DOMAIN buffered_sockets_out[b]
    THEN IF buffered_sockets_out[b][name].datatype = T THEN Ok ELSE TypeMismatch
    ELSE NotFound

\* lines 76-83, up to the call of Buffered_Socket::bind
bind_by_type(T, this, start_sck_name, dest_block, dest_sck_name) ==
    IF get_buffered_socket_in(this, T, start_sck_name) # Ok
    THEN get_buffered_socket_in(this, T, start_sck_name)
    ELSE get_buffered_socket_out(dest_block, T, dest_sck_name)

\* bind without the int32_t branch of line 100
bind_without_int32(this, start_sck_name, dest_block, dest_sck_name) ==
    IF start_sck_name \notin DOMAIN buffered_sockets_in[this]
    THEN NotFound
    ELSE LET sin_datatype == buffered_sockets_in[this][start_sck_name].datatype
         IN  IF sin_datatype \in Supported \ {"int32"}
             THEN bind_by_type(sin_datatype, this, start_sck_name, dest_block, dest_sck_name)
             ELSE Unreachable

\* lines 85-109: what bind ends with
bind(this, start_sck_name, dest_block, dest_sck_name) ==
    IF start_sck_name \notin DOMAIN buffered_sockets_in[this]
    THEN NotFound
    ELSE LET sin_datatype == buffered_sockets_in[this][start_sck_name].datatype
         IN  IF sin_datatype \in Supported
             THEN bind_by_type(sin_datatype, this, start_sck_name, dest_block, dest_sck_name)
             ELSE Unreachable

\* Buffered_Socket::bind: the input channel from now on reads the buffer of
\* the output channel it is bound to
SocketBind(sin, sout) == [sin EXCEPT !.buffer = sout.buffer]

Bind(this, start_sck_name, dest_block, dest_sck_name) ==
    /\ orch.st = "ready"
    /\ exists[this] /\ exists[dest_block]
    /\ ~hist.started
    /\ call' = [op |-> "bind", this |-> this, start |-> start_sck_name,
                dest |-> dest_block, dest_name |-> dest_sck_name]
    /\ error' = bind(this, start_sck_name, dest_block, dest_sck_name)
    /\ IF bind(this, start_sck_name, dest_block, dest_sck_name) = Ok
       THEN buffered_sockets_in' = [buffered_sockets_in EXCEPT ![this][start_sck_name] =
                SocketBind(@, buffered_sockets_out[dest_block][dest_sck_name])]
       ELSE UNCHANGED buffered_sockets_in
    /\ UNCHANGED <<exists, n_threads, buffer_size, tasks, buffered_sockets_out, buffer,
                   threads, pc, is_done, orch, fed, drained, hist>>

(* ------------------------------- Init ---------------------------------- *)

\* before any block has been constructed
Init ==
    /\ exists = [b \in Blocks |-> FALSE]
    /\ n_threads = [b \in Blocks |-> 0]
    /\ buffer_size = [b \in Blocks |-> 0]
    /\ tasks = [b \in Blocks |-> <<>>]
    /\ buffered_sockets_in = [b \in Blocks |-> <<>>]
    /\ buffered_sockets_out = [b \in Blocks |-> <<>>]
    /\ buffer = [i \in BufferIds |-> NoBuffer]
    /\ threads = [b \in Blocks |-> <<>>]
    /\ pc = [b \in Blocks |-> <<>>]
    /\ is_done = FALSE
    /\ orch = Ready
    /\ call = [op |-> "none", this |-> ""]
    /\ error = Ok
    /\ fed = 0
    /\ drained = [b \in Blocks |-> <<>>]
    /\ hist = NoHist

\* one block, Block(TaskI32, bs, nt), as the constructor leaves it
InitSingle(bs, nt) ==
    /\ exists = [b \in Blocks |-> b = "b1"]
    /\ n_threads = [b \in Blocks |-> IF b = "b1" THEN nt ELSE 0]
    /\ buffer_size = [b \in Blocks |-> IF b = "b1" THEN bs ELSE 0]
    /\ tasks = [b \in Blocks |-> IF b = "b1" THEN NewReplicas(TaskI32, nt) ELSE <<>>]
    /\ buffered_sockets_in =
          [b \in Blocks |-> IF b = "b1" THEN SocketMap(b, TaskI32, "SIN", bs) ELSE <<>>]
    /\ buffered_sockets_out =
          [b \in Blocks |-> IF b = "b1" THEN SocketMap(b, TaskI32, "SOUT", bs) ELSE <<>>]
    /\ buffer = NewBuffers([i \in BufferIds |-> NoBuffer], "b1", TaskI32, bs)
    /\ threads = [b \in Blocks |-> IF b = "b1" THEN NewThreads(nt) ELSE <<>>]
    /\ pc = [b \in Blocks |-> IF b = "b1" THEN NewPc(nt) ELSE <<>>]
    /\ is_done = FALSE
    /\ orch = Ready
    /\ call = [op |-> "Block", this |-> "b1", buffer_size |-> bs, n_threads |-> nt]
    /\ error = Ok
    /\ fed = 0
    /\ drained = [b \in Blocks |-> <<>>]
    /\ hist = [NoHist EXCEPT !.polls = [b \in Blocks |->
                   IF b = "b1" THEN [t \in 0..(nt - 1) |-> 0] ELSE <<>>],
                              !.count["b1"] = [t \in 0..(nt - 1) |-> ZeroCount],
                              !.task["b1"] = TaskI32]

\* two blocks Block(TaskI32, bs, 1) after b2.bind("X", b1, "Y"): b2 reads
\* what b1 writes
InitPipeline(bs) ==
    /\ exists = [b \in Blocks |-> TRUE]
    /\ n_threads = [b \in Blocks |-> 1]
    /\ buffer_size = [b \in Blocks |-> bs]
    /\ tasks = [b \in Blocks |-> NewReplicas(TaskI32, 1)]
    /\ buffered_sockets_in =
          [b \in Blocks |->
              IF b = "b2"
              THEN [SocketMap(b, TaskI32, "SIN", bs) EXCEPT !["X"] =
                       SocketBind(@, SocketMap("b1", TaskI32, "SOUT", bs)["Y"])]
              ELSE SocketMap(b, TaskI32, "SIN", bs)]
    /\ buffered_sockets_out = [b \in Blocks |-> SocketMap(b, TaskI32, "SOUT", bs)]
    /\ buffer = NewBuffers(NewBuffers([i \in BufferIds |-> NoBuffer], "b1", TaskI32, bs),
                           "b2", TaskI32, bs)
    /\ threads = [b \in Blocks |-> NewThreads(1)]
    /\ pc = [b \in Blocks |-> NewPc(1)]
    /\ is_done = FALSE
    /\ orch = Ready
    /\ call = [op |-> "bind", this |-> "b2", start |-> "X", dest |-> "b1", dest_name |-> "Y"]
    /\ error = Ok
    /\ fed = 0
    /\ drained = [b \in Blocks |-> <<>>]
    /\ hist = [NoHist EXCEPT !.polls = [b \in Blocks |-> [t \in {0} |-> 0]],
                              !.count = [b \in Blocks |-> [t \in {0} |-> ZeroCount]],
                              !.task = [b \in Blocks |-> TaskI32]]

\* the pipelines the runs start from: one block with two threads and a
\* buffer of two, one block with one thread, or two bound blocks of one
\* thread each
InitRun ==
    \/ InitSingle(2, 2)
    \/ InitSingle(MaxBuf, 1)
    \/ \E bs \in 1..MaxBuf : InitPipeline(bs)

(* ---------------------- Buffered_Socket (channel) ---------------------- *)

\* Buffered_Socket::pop(tid) on a channel whose buffer is r: the buffer
\* afterwards, the item handed to the replica (NoItem: storage untouched)
\* and the returned value.  true means "nothing moved, call again".  On a
\* stopped channel nothing moves and either value may come back.
PopOutcomes(r) ==
    IF r.stopped
    THEN {[buf |-> r, got |-> FALSE, item |-> NoItem, ret |-> v] : v \in BOOLEAN}
    ELSE IF r.q = <<>>
    THEN {[buf |-> r, got |-> FALSE, item |-> NoItem, ret |-> TRUE]}
    ELSE {[buf |-> [r EXCEPT !.q = Tail(r.q)], got |-> TRUE, item |-> Head(r.q),
           ret |-> FALSE]}

\* Buffered_Socket::push(tid) of item x: true means "buffer full, call again"
PushOutcomes(r, x) ==
    IF r.stopped
    THEN {[buf |-> r, put |-> FALSE, ret |-> v] : v \in BOOLEAN}
    ELSE IF Len(r.q) >= r.cap
    THEN {[buf |-> r, put |-> FALSE, ret |-> TRUE]}
    ELSE {[buf |-> [r EXCEPT !.q = Append(r.q, x)], put |-> TRUE, ret |-> FALSE]}

\* Buffered_Socket::stop()
SocketStop(r) == [r EXCEPT !.stopped = TRUE]

\* Buffered_Socket::reset()
SocketReset(r) == [r EXCEPT !.q = <<>>, !.stopped = FALSE]

(* ----------------------- Block::run, Block::join ------------------------ *)

\* lines 111-116.  Assigning to a std::thread that is still joinable calls
\* std::terminate: the process is gone, and with it every block.
Run(b) ==
    /\ orch.st = "ready"
    /\ exists[b]
    /\ call' = [op |-> "run", this |-> b]
    /\ IF \E t \in Tids(b) : threads[b][t] = "joinable"
       THEN /\ orch' = Aborted
            /\ error' = Terminated
            /\ exists' = [x \in Blocks |-> FALSE]
            /\ n_threads' = [x \in Blocks |-> 0]
            /\ buffer_size' = [x \in Blocks |-> 0]
            /\ tasks' = [x \in Blocks |-> <<>>]
            /\ buffered_sockets_in' = [x \in Blocks |-> <<>>]
            /\ buffered_sockets_out' = [x \in Blocks |-> <<>>]
            /\ buffer' = [i \in BufferIds |-> NoBuffer]
            /\ threads' = [x \in Blocks |-> <<>>]
            /\ pc' = [x \in Blocks |-> <<>>]
            /\ is_done' = FALSE
            /\ fed' = 0
            /\ drained' = [x \in Blocks |-> <<>>]
            /\ hist' = NoHist
       ELSE /\ threads' = [threads EXCEPT ![b] = [t \in Tids(b) |-> "joinable"]]
            /\ pc' = [pc EXCEPT ![b] = [t \in Tids(b) |-> [at |-> "while", i |-> 0]]]
            /\ error' = Ok
            /\ hist' = [hist EXCEPT !.started = TRUE,
                                    !.polls[b] = [t \in Tids(b) |-> 0],
                                    !.count[b] = [t \in Tids(b) |-> ZeroCount],
                                    !.dirty[b] = TRUE]
            /\ UNCHANGED <<exists, n_threads, buffer_size, tasks, buffered_sockets_in,
                           buffered_sockets_out, buffer, is_done, orch, fed, drained>>

\* a join() that waits for the first thread only
JoinFirstOnly(b) == {0}

\* line 121: the threads join() waits for
JoinTargets(b) == Tids(b)

\* lines 118-123.  th.join() throws when th is not joinable, and returns
\* once the thread function of th has returned; join() as a whole returns
\* when that has happened for every thread, in the order of the vector.
Join(b) ==
    /\ orch.st = "ready"
    /\ exists[b]
    /\ call' = [op |-> "join", this |-> b]
    /\ IF \E t \in JoinTargets(b) : threads[b][t] # "joinable"
       THEN /\ error' = SystemError
            /\ UNCHANGED threads
       ELSE /\ \A t \in JoinTargets(b) : Returned(b, t)
            /\ error' = Ok
            /\ threads' = [threads EXCEPT ![b] =
                  [t \in Tids(b) |-> IF t \in JoinTargets(b) THEN "not_joinable" ELSE @[t]]]
    /\ UNCHANGED <<exists, n_threads, buffer_size, tasks, buffered_sockets_in,
                   buffered_sockets_out, buffer, pc, is_done, orch, fed, drained, hist>>

(* --------------------------- Block::reset ------------------------------- *)

\* the buffers behind the channels of block b
BuffersOf(b) ==
    {buffered_sockets_in[b][n].buffer : n \in DOMAIN buffered_sockets_in[b]}
    \cup {buffered_sockets_out[b][n].buffer : n \in DOMAIN buffered_sockets_out[b]}

\* a reset() without the loop of line 150
ResetInputsOnly(b) ==
    {buffered_sockets_in[b][n].buffer : n \in DOMAIN buffered_sockets_in[b]}

\* lines 149-150: the channels reset() is called on
ResetTargets(b) == BuffersOf(b)

\* the ids of the items held by the replicas and the channels of b
Held(b) ==
    ({tasks[b][t][n].id : t \in Tids(b), n \in {"X", "Y"}}
     \cup UNION {{buffer[i].q[k].id : k \in 1..Len(buffer[i].q)} : i \in BuffersOf(b)})
    \ {0}

\* lines 146-151
Reset(b) ==
    /\ orch.st = "ready"
    /\ exists[b]
    /\ ~AnyActive
    /\ buffer' = [i \in BufferIds |->
                     IF i \in ResetTargets(b) THEN SocketReset(buffer[i]) ELSE buffer[i]]
    /\ call' = [op |-> "reset", this |-> b]
    /\ error' = Ok
    /\ drained' = [drained EXCEPT ![b] = <<>>]
    /\ hist' = [hist EXCEPT
                   !.pushed = [i \in BufferIds |-> IF i \in ResetTargets(b) THEN <<>> ELSE @[i]],
                   !.popped = [i \in BufferIds |-> IF i \in ResetTargets(b) THEN <<>> ELSE @[i]],
                   !.mark[b] = fed,
                   !.stale[b] = Held(b),
                   !.dirty[b] = FALSE]
    /\ UNCHANGED <<exists, n_threads, buffer_size, tasks, buffered_sockets_in,
                   buffered_sockets_out, threads, pc, is_done, orch, fed>>

(* ------------------------ Block::execute_task --------------------------- *)

\* observations: an item entered or left buffer id; worker t of block b
\* called pop or push while the stop flag was up
SeenPush(h, id, x) == [h EXCEPT !.pushed[id] = Append(@, x.id)]
SeenPop(h, id, x) == [h EXCEPT !.popped[id] = Append(@, x.id)]
SeenPoll(h, b, t) ==
    IF is_done /\ h.polls[b][t] < MaxPolls THEN [h EXCEPT !.polls[b][t] = @ + 1] ELSE h
\* the counts end when the worker has returned
Left(h, b, t, to) ==
    IF to.at = "done" THEN [h EXCEPT !.polls[b][t] = 0, !.count[b][t] = ZeroCount] ELSE h
\* worker t of block b has moved an item by a pop or a push on channel n, or
\* has called exec
CountPop(h, b, t, n) == [h EXCEPT !.count[b][t].pops_less_execs[n] = @ + 1]
CountPush(h, b, t, n) == [h EXCEPT !.count[b][t].execs_less_pushes[n] = @ - 1]
CountExec(h, b, t) ==
    [h EXCEPT !.count[b][t].pops_less_execs =
                  [n \in Names |-> IF n \in DOMAIN buffered_sockets_in[b] THEN @[n] - 1 ELSE @[n]],
              !.count[b][t].execs_less_pushes =
                  [n \in Names |-> IF n \in DOMAIN buffered_sockets_out[b] THEN @[n] + 1 ELSE @[n]],
              !.count[b][t].late = IF is_done THEN @ + 1 ELSE @]

InKeys(b) == Keys(buffered_sockets_in[b])
OutKeys(b) == Keys(buffered_sockets_out[b])

\* a worker that never enters the loop of line 130
AtPopSkipped(b, i) == [at |-> "brk", i |-> 0]

\* where the worker stands once it turns to the i-th input channel (line
\* 130), output channel (line 138) or channel to stop (lines 142-143)
AtPop(b, i) ==
    IF i <= Len(InKeys(b)) THEN [at |-> "pop_chk", i |-> i] ELSE [at |-> "brk", i |-> 0]
AtPush(b, i) ==
    IF i <= Len(OutKeys(b)) THEN [at |-> "push_chk", i |-> i] ELSE [at |-> "while", i |-> 0]
AtStopIn(b, i) ==
    IF i <= Len(InKeys(b)) THEN [at |-> "stop_in", i |-> i] ELSE [at |-> "done", i |-> 0]
\* a worker that leaves out the loop of line 142
AtStopOutSkipped(b, i) == AtStopIn(b, 1)

AtStopOut(b, i) ==
    IF i <= Len(OutKeys(b)) THEN [at |-> "stop_out", i |-> i] ELSE AtStopIn(b, 1)

\* Task::exec of the replica: every output socket becomes twice the input
\* socket X
ExecTask(b, data) ==
    [n \in DOMAIN data |->
        IF n \in DOMAIN buffered_sockets_out[b] \/ n = "Y"
        THEN Item(data["X"].id, 2 * data["X"].val)
        ELSE data[n]]

\* a run() that hands every thread the id 0
ThreadArgZero(t) == 0

\* line 115: the tid that threads[t] calls execute_task with
ThreadArg(t) == t

WorkerUnchanged ==
    UNCHANGED <<exists, n_threads, buffer_size, buffered_sockets_in,
                buffered_sockets_out, threads, is_done, orch, call, error, fed,
                drained>>

\* a read of the stop flag that never sees it up
NeverStop == FALSE

\* the reads of the stop flag: line 128, lines 131 and 139, line 133
LoopStop == is_done
PollStop == is_done
BreakNow == is_done

\* a poll loop that goes round again while the call returns false
RetryInverted(ret) == ~ret

\* lines 131 and 139: the poll loop goes round again while the call
\* returns true
Retry(ret) == ret

\* line 128: while (!is_done)
WhileTest(b, t) ==
    /\ Active(b, t) /\ pc[b][t].at = "while"
    /\ pc' = [pc EXCEPT ![b][t] = IF LoopStop THEN AtStopOut(b, 1) ELSE AtPop(b, 1)]
    /\ hist' = Left(hist, b, t, pc'[b][t])
    /\ UNCHANGED <<tasks, buffer>>
    /\ WorkerUnchanged

\* line 131: the test !is_done of the poll loop on the i-th input channel
PopTest(b, t) ==
    /\ Active(b, t) /\ pc[b][t].at = "pop_chk"
    /\ pc' = [pc EXCEPT ![b][t] =
                IF PollStop THEN AtPop(b, pc[b][t].i + 1)
                ELSE [at |-> "pop_call", i |-> pc[b][t].i]]
    /\ UNCHANGED <<tasks, buffer, hist>>
    /\ WorkerUnchanged

\* line 131: it.second->pop(tid)
PopCall(b, t) ==
    /\ Active(b, t) /\ pc[b][t].at = "pop_call"
    /\ LET n == InKeys(b)[pc[b][t].i]
           id == buffered_sockets_in[b][n].buffer
       IN  \E o \in PopOutcomes(buffer[id]) :
              /\ buffer' = [buffer EXCEPT ![id] = o.buf]
              /\ tasks' = IF o.got THEN [tasks EXCEPT ![b][ThreadArg(t)][n] = o.item]
                          ELSE tasks
              /\ pc' = [pc EXCEPT ![b][t] =
                          IF Retry(o.ret) THEN [at |-> "pop_chk", i |-> pc[b][t].i]
                          ELSE AtPop(b, pc[b][t].i + 1)]
              /\ hist' = SeenPoll(IF o.got THEN CountPop(SeenPop(hist, id, o.item), b, t, n)
                                  ELSE hist, b, t)
    /\ WorkerUnchanged

\* lines 133-134: if (is_done) break;
BreakTest(b, t) ==
    /\ Active(b, t) /\ pc[b][t].at = "brk"
    /\ pc' = [pc EXCEPT ![b][t] =
                IF BreakNow THEN AtStopOut(b, 1) ELSE [at |-> "exec", i |-> 0]]
    /\ hist' = Left(hist, b, t, pc'[b][t])
    /\ UNCHANGED <<tasks, buffer>>
    /\ WorkerUnchanged

\* line 136: this->tasks[tid]->exec()
Exec(b, t) ==
    /\ Active(b, t) /\ pc[b][t].at = "exec"
    /\ tasks' = [tasks EXCEPT ![b][ThreadArg(t)] = ExecTask(b, tasks[b][ThreadArg(t)])]
    /\ pc' = [pc EXCEPT ![b][t] = AtPush(b, 1)]
    /\ hist' = CountExec(hist, b, t)
    /\ UNCHANGED buffer
    /\ WorkerUnchanged

\* line 139: the test !is_done of the push loop on the i-th output channel
PushTest(b, t) ==
    /\ Active(b, t) /\ pc[b][t].at = "push_chk"
    /\ pc' = [pc EXCEPT ![b][t] =
                IF PollStop THEN AtPush(b, pc[b][t].i + 1)
                ELSE [at |-> "push_call", i |-> pc[b][t].i]]
    /\ UNCHANGED <<tasks, buffer, hist>>
    /\ WorkerUnchanged

\* line 139: it.second->push(tid)
PushCall(b, t) ==
    /\ Active(b, t) /\ pc[b][t].at = "push_call"
    /\ LET n == OutKeys(b)[pc[b][t].i]
           id == buffered_sockets_out[b][n].buffer
           x == tasks[b][ThreadArg(t)][n]
       IN  \E o \in PushOutcomes(buffer[id], x) :
              /\ buffer' = [buffer EXCEPT ![id] = o.buf]
              /\ pc' = [pc EXCEPT ![b][t] =
                          IF Retry(o.ret) THEN [at |-> "push_chk", i |-> pc[b][t].i]
                          ELSE AtPush(b, pc[b][t].i + 1)]
              /\ hist' = SeenPoll(IF o.put THEN CountPush(SeenPush(hist, id, x), b, t, n)
                                  ELSE hist, b, t)
    /\ UNCHANGED tasks
    /\ WorkerUnchanged

\* line 142: stop() on the i-th output channel
StopOut(b, t) ==
    /\ Active(b, t) /\ pc[b][t].at = "stop_out"
    /\ LET id == buffered_sockets_out[b][OutKeys(b)[pc[b][t].i]].buffer
       IN  buffer' = [buffer EXCEPT ![id] = SocketStop(@)]
    /\ pc' = [pc EXCEPT ![b][t] = AtStopOut(b, pc[b][t].i + 1)]
    /\ hist' = Left(hist, b, t, pc'[b][t])
    /\ UNCHANGED tasks
    /\ WorkerUnchanged

\* line 143: stop() on the i-th input channel, then the thread returns
StopIn(b, t) ==
    /\ Active(b, t) /\ pc[b][t].at = "stop_in"
    /\ LET id == buffered_sockets_in[b][InKeys(b)[pc[b][t].i]].buffer
       IN  buffer' = [buffer EXCEPT ![id] = SocketStop(@)]
    /\ pc' = [pc EXCEPT ![b][t] = AtStopIn(b, pc[b][t].i + 1)]
    /\ hist' = Left(hist, b, t, pc'[b][t])
    /\ UNCHANGED tasks
    /\ WorkerUnchanged

Worker(b, t) ==
    \/ WhileTest(b, t)
    \/ PopTest(b, t)
    \/ PopCall(b, t)
    \/ BreakTest(b, t)
    \/ Exec(b, t)
    \/ PushTest(b, t)
    \/ PushCall(b, t)
    \/ StopOut(b, t)
    \/ StopIn(b, t)

(* ---------------------------- environment ------------------------------- *)

\* the input channels no output channel has been bound to
Unbound(b, n) ==
    /\ n \in DOMAIN buffered_sockets_in[b]
    /\ buffered_sockets_in[b][n].buffer = <<b, "SIN", n>>

\* the buffers some input channel reads
Consumed ==
    UNION {{buffered_sockets_in[b][n].buffer : n \in DOMAIN buffered_sockets_in[b]} :
              b \in Blocks}

\* the orchestrator raises the stop flag
RaiseStop ==
    /\ hist.started /\ orch.st # "aborted"
    /\ ~is_done
    /\ is_done' = TRUE
    /\ hist' = [hist EXCEPT !.raised = TRUE]
    /\ UNCHANGED <<exists, n_threads, buffer_size, tasks, buffered_sockets_in,
                   buffered_sockets_out, buffer, threads, pc, orch, call, error, fed,
                   drained>>

\* the orchestrator clears the stop flag between two runs, once no worker
\* is left and every block has been reset
ClearStop ==
    /\ orch.st = "ready" /\ ~AnyActive
    /\ \A b \in Blocks : ~hist.dirty[b]
    /\ is_done
    /\ is_done' = FALSE
    /\ UNCHANGED <<exists, n_threads, buffer_size, tasks, buffered_sockets_in,
                   buffered_sockets_out, buffer, threads, pc, orch, call, error, fed,
                   drained, hist>>

\* an external producer puts the next input into an unbound input channel
Feed(b, n) ==
    /\ hist.started /\ orch.st # "aborted"
    /\ exists[b] /\ Unbound(b, n)
    /\ fed < NumItems
    /\ LET id == buffered_sockets_in[b][n].buffer IN
       \E o \in PushOutcomes(buffer[id], Input(fed + 1)) :
          /\ o.put
          /\ buffer' = [buffer EXCEPT ![id] = o.buf]
          /\ hist' = SeenPush(hist, id, Input(fed + 1))
    /\ fed' = fed + 1
    /\ UNCHANGED <<exists, n_threads, buffer_size, tasks, buffered_sockets_in,
                   buffered_sockets_out, threads, pc, is_done, orch, call, error,
                   drained>>

\* an external consumer takes the next item of an output channel that no
\* input channel reads
Drain(b, n) ==
    /\ hist.started /\ orch.st # "aborted"
    /\ exists[b] /\ n \in DOMAIN buffered_sockets_out[b]
    /\ buffered_sockets_out[b][n].buffer \notin Consumed
    /\ Len(drained[b]) < NumItems
    /\ LET id == buffered_sockets_out[b][n].buffer IN
       \E o \in PopOutcomes(buffer[id]) :
          /\ o.got
          /\ buffer' = [buffer EXCEPT ![id] = o.buf]
          /\ drained' = [drained EXCEPT ![b] = Append(@, o.item)]
          /\ hist' = SeenPop(hist, id, o.item)
    /\ UNCHANGED <<exists, n_threads, buffer_size, tasks, buffered_sockets_in,
                   buffered_sockets_out, threads, pc, is_done, orch, call, error,
                   fed>>

(* --------------------------- specification ----------------------------- *)

\* construction and binding
NextSetup ==
    \/ \E b \in Blocks, task \in Tasks, bs \in 0..MaxBuf, nt \in 0..MaxWorkers :
          Construct(b, task, bs, nt)
    \/ \E this \in Blocks, dest \in Blocks, n1 \in Names, n2 \in Names :
          Bind(this, n1, dest, n2)

SpecSetup == Init /\ [][NextSetup]_vars

\* one run of a pipeline, up to and after the stop flag
Next ==
    \/ \E b \in Blocks : Run(b)
    \/ \E b \in Blocks : Join(b)
    \/ \E b \in Blocks : \E t \in Tids(b) : Worker(b, t)
    \/ RaiseStop
    \/ \E b \in Blocks, n \in Names : Feed(b, n)
    \/ \E b \in Blocks, n \in Names : Drain(b, n)

Spec == InitRun /\ [][Next]_vars

\* the first run() of a block
Start(b) ==
    /\ \A t \in Tids(b) : pc[b][t].at = "idle"
    /\ Run(b)

\* the same, where every block is started, every started thread is
\* scheduled again and again, and the producer and the consumer outside
\* the pipeline go on as long as they can
Fairness ==
    /\ \A b \in Blocks : WF_vars(Start(b))
    /\ \A b \in Blocks : \A t \in 0..(MaxWorkers - 1) : WF_vars(t \in Tids(b) /\ Worker(b, t))
    /\ \A b \in Blocks, n \in Names : WF_vars(Feed(b, n))
    /\ \A b \in Blocks, n \in Names : WF_vars(Drain(b, n))

\* a block of two threads, or two blocks of one thread in a row
InitFair == InitSingle(2, 2) \/ InitPipeline(1)

FairSpec == InitFair /\ [][Next]_vars /\ Fairness

\* two blocks of one thread in a row, for every buffer size
InitBound == \E bs \in 1..MaxBuf : InitPipeline(bs)

FairPipeline == InitBound /\ [][Next]_vars /\ Fairness

\* runs that follow one another: the blocks are reset and the stop flag is
\* cleared in between
InitRestart ==
    \/ InitSingle(2, 2)
    \/ \E bs \in 1..MaxBuf : InitSingle(bs, 1)

NextRestart ==
    \/ \E b \in Blocks : Run(b)
    \/ \E b \in Blocks : Join(b)
    \/ \E b \in Blocks : Reset(b)
    \/ \E b \in Blocks : \E t \in Tids(b) : Worker(b, t)
    \/ RaiseStop
    \/ ClearStop
    \/ \E b \in Blocks, n \in Names : Feed(b, n)
    \/ \E b \in Blocks, n \in Names : Drain(b, n)

SpecRestart == InitRestart /\ [][NextRestart]_vars

(* ============================== claims ================================== *)

(* ---------------------- construction and binding ------------------------ *)

\* C1: the constructor succeeds exactly when n_threads >= 1 and
\* buffer_size >= n_threads; otherwise it ends with invalid_argument, the
\* block does not exist and it has no thread.
C1_Construction ==
    call.op = "Block" =>
       IF call.n_threads >= 1 /\ call.buffer_size >= call.n_threads
       THEN /\ error = Ok
            /\ exists[call.this]
            /\ n_threads[call.this] = call.n_threads
            /\ buffer_size[call.this] = call.buffer_size
       ELSE /\ error.type = "invalid_argument"
            /\ ~exists[call.this]
            /\ threads[call.this] = <<>>
            /\ pc[call.this] = <<>>

\* a constructor call with n_threads >= 1 and a smaller buffer_size has failed
C1_Witness ==
    /\ call.op = "Block"
    /\ call.n_threads >= 1 /\ call.buffer_size < call.n_threads
    /\ error = InvalidArgument("buffer_size")
    /\ \E b \in Blocks : exists[b]

\* C2 as stated: bind called on the source block with the name of one of its
\* output channels and the name of an input channel of the destination
\* block, both of the same datatype, succeeds.
C2_AsStated ==
    (/\ call.op = "bind"
     /\ call.start \in DOMAIN buffered_sockets_out[call.this]
     /\ call.dest_name \in DOMAIN buffered_sockets_in[call.dest]
     /\ buffered_sockets_out[call.this][call.start].datatype
           = buffered_sockets_in[call.dest][call.dest_name].datatype)
    => error = Ok

\* C2 amended: bind called on the consuming block with the name of one of
\* its input channels and the name of an output channel of the block passed
\* as argument, both of the same datatype, succeeds, and the input channel
\* then reads the buffer the output channel writes.
C2_BindConnects ==
    (/\ call.op = "bind"
     /\ call.start \in DOMAIN buffered_sockets_in[call.this]
     /\ call.dest_name \in DOMAIN buffered_sockets_out[call.dest]
     /\ buffered_sockets_in[call.this][call.start].datatype
           = buffered_sockets_out[call.dest][call.dest_name].datatype)
    => /\ error = Ok
       /\ buffered_sockets_in[call.this][call.start].buffer
             = buffered_sockets_out[call.dest][call.dest_name].buffer

\* b2.bind("X", b1, "Y") has succeeded between two blocks
C2_Witness ==
    /\ call.op = "bind" /\ error = Ok
    /\ call.this # call.dest
    /\ buffered_sockets_in[call.this][call.start].buffer = <<call.dest, "SOUT", call.dest_name>>

\* C3: a bind whose first name is no input channel of the block it is called
\* on, or whose second name is no output channel of the other block, ends
\* with NotFound and changes no channel of either block.
C3_NotFound ==
    [][(/\ call'.op = "bind"
        /\ call' # call \/ error' # error \/ buffered_sockets_in' # buffered_sockets_in
        /\ \/ call'.start \notin DOMAIN buffered_sockets_in[call'.this]
           \/ call'.dest_name \notin DOMAIN buffered_sockets_out[call'.dest])
       => /\ error' = NotFound
          /\ UNCHANGED <<buffered_sockets_in, buffered_sockets_out, buffer, tasks>>]_vars

\* a bind has failed on its second name alone
C3_Witness ==
    /\ call.op = "bind" /\ error = NotFound
    /\ call.start \in DOMAIN buffered_sockets_in[call.this]
    /\ call.dest_name \notin DOMAIN buffered_sockets_out[call.dest]

\* C4: a bind between an existing input channel and an existing output
\* channel of different datatypes ends with TypeMismatch, which is not
\* NotFound, and changes no channel of either block.
C4_TypeMismatch ==
    [][(/\ call'.op = "bind"
        /\ call' # call \/ error' # error \/ buffered_sockets_in' # buffered_sockets_in
        /\ call'.start \in DOMAIN buffered_sockets_in[call'.this]
        /\ call'.dest_name \in DOMAIN buffered_sockets_out[call'.dest]
        /\ buffered_sockets_in[call'.this][call'.start].datatype
              # buffered_sockets_out[call'.dest][call'.dest_name].datatype)
       => /\ error' = TypeMismatch
          /\ error' # NotFound
          /\ UNCHANGED <<buffered_sockets_in, buffered_sockets_out, buffer, tasks>>]_vars

\* a float64 input has been refused an int32 output
C4_Witness ==
    /\ call.op = "bind" /\ error = TypeMismatch
    /\ call.start \in DOMAIN buffered_sockets_in[call.this]
    /\ buffered_sockets_in[call.this][call.start].datatype = "float64"
    /\ call.dest_name \in DOMAIN buffered_sockets_out[call.dest]
    /\ buffered_sockets_out[call.dest][call.dest_name].datatype = "int32"

(* ------------------------------ one run --------------------------------- *)

\* an output buffer that an input channel of some block has been bound to
IsBound(i) == i[2] = "SOUT" /\ i \in Consumed

\* the ids of the items in a buffer, oldest first
Ids(q) == [k \in 1..Len(q) |-> q[k].id]

AllReturned ==
    \A b \in Blocks : \A t \in Tids(b) : threads[b][t] = "joinable" => Returned(b, t)

\* some worker of block b is still in execute_task while the stop flag is up
Spinning(b) == is_done /\ \E t \in Tids(b) : Active(b, t)

\* C6: a worker thread calls pop or push at most once while the stop flag
\* is up, wherever it was when the flag went up, and the threads of a
\* started block do not stay in execute_task once the flag is up: again and
\* again all of them have returned.
C6_StopsAll ==
    /\ [](\A b \in Blocks : \A t \in Tids(b) : hist.polls[b][t] <= 1)
    /\ \A b \in Blocks : []<>(~Spinning(b))

\* the flag is up and every thread of a started block has returned, one of
\* them after it had computed an output
C6_Witness ==
    /\ is_done /\ AllReturned
    /\ \E b \in Blocks : \A t \in Tids(b) : threads[b][t] = "joinable"
    /\ \E b \in Blocks : \E t \in Tids(b) : Returned(b, t) /\ tasks[b][t]["Y"] # NoItem

\* the values of a sequence of items
Vals(q) == [k \in 1..Len(q) |-> q[k].val]

\* the block of the scenario: two threads, buffers of two, alone
Scenario22 ==
    /\ exists["b1"] /\ ~exists["b2"]
    /\ n_threads["b1"] = 2 /\ buffer_size["b1"] = 2

C9_JoinWaits ==
    (call.op = "join" /\ error = Ok)
    => /\ \A t \in Tids(call.this) : Returned(call.this, t)
       /\ \A i \in BuffersOf(call.this) : buffer[i].stopped
       /\ hist.raised

\* join() has returned on a block of two threads
C9_Witness ==
    /\ call.op = "join" /\ error = Ok
    /\ n_threads[call.this] = 2
    /\ \A t \in Tids(call.this) : threads[call.this][t] = "not_joinable"

\* the positions after the loop of execute_task
StopPhase == {"stop_out", "stop_in", "done"}

\* C10: a worker that reads the stop flag up at line 133, the polls of the
\* iteration behind it, goes on to the stop() calls with its replica as it
\* is, and from there it never executes or pushes again.
C10_BreakBeforeExec ==
    [][\A b \in Blocks : \A t \in Tids(b) :
          (/\ Active(b, t) /\ orch'.st = "ready"
           /\ pc'[b][t] # pc[b][t]
           /\ \/ pc[b][t].at = "brk" /\ is_done
              \/ pc[b][t].at \in StopPhase)
          => /\ pc'[b][t].at \in StopPhase
             /\ tasks'[b][t] = tasks[b][t]
             /\ hist'.pushed = hist.pushed]_vars

\* a worker is at its stop() calls with a popped input it has not executed
C10_Witness ==
    \E b \in Blocks : \E t \in Tids(b) :
       /\ pc[b][t].at \in StopPhase
       /\ tasks[b][t]["X"].id # 0
       /\ tasks[b][t]["Y"].id # tasks[b][t]["X"].id

(* ------------------------------ restart --------------------------------- *)

\* the items that have left block b since its last reset or are about to
Output(b) ==
    {drained[b][k] : k \in 1..Len(drained[b])}
    \cup UNION {{buffer[buffered_sockets_out[b][n].buffer].q[k] :
                    k \in 1..Len(buffer[buffered_sockets_out[b][n].buffer].q)} :
                n \in DOMAIN buffered_sockets_out[b]}

Steps(b, t) == Active(b, t) /\ orch'.st = "ready" /\ pc'[b][t] # pc[b][t]

PollPhase == {"pop_chk", "pop_call"}
PushPhase == {"push_chk", "push_call"}

\* C11: in every iteration the polls come first, channel after channel,
\* then one exec, then the pushes: line 133 is reached only from the poll of
\* the last input channel, exec only from line 133, the pushes only from
\* exec, and the replica's outputs change at exec alone.
C11_IterationOrder ==
    [][\A b \in Blocks : \A t \in Tids(b) :
          Steps(b, t) =>
             /\ pc'[b][t].at \in PollPhase =>
                   /\ pc[b][t].at \in PollPhase \cup {"while"}
                   /\ pc[b][t].at \in PollPhase => pc'[b][t].i >= pc[b][t].i
             /\ pc'[b][t].at = "brk" =>
                   \/ pc[b][t].at \in PollPhase /\ pc[b][t].i = Len(InKeys(b))
                   \/ pc[b][t].at = "while" /\ InKeys(b) = <<>>
             /\ pc'[b][t].at = "exec" => pc[b][t].at = "brk"
             /\ pc[b][t].at = "exec" =>
                   pc'[b][t].at \in PushPhase \cup {"while"} /\ pc'[b][t].i <= 1
             /\ pc'[b][t].at \in PushPhase => pc[b][t].at \in PushPhase \cup {"exec"}
             /\ tasks'[b][t]["Y"] # tasks[b][t]["Y"] => pc[b][t].at = "exec"
             /\ hist'.pushed # hist.pushed => pc[b][t].at = "push_call"]_vars

\* a worker is pushing the result of the input it polled in this iteration
C11_Witness ==
    \E b \in Blocks : \E t \in Tids(b) :
       /\ Active(b, t) /\ pc[b][t].at = "push_call"
       /\ tasks[b][t]["X"].id # 0
       /\ tasks[b][t]["Y"] = Item(tasks[b][t]["X"].id, 2 * tasks[b][t]["X"].val)

\* the buffers behind the first k channels of a map, in iteration order
FirstBuffers(m, k) == {m[Keys(m)[j]].buffer : j \in 1..k}

\* C12: a worker starts its stop() calls only from a test of the loop that
\* read the stop flag up; it has stopped every output channel of its block
\* before it stops an input channel; and when it returns every channel of
\* the block has been stopped.
C12_StopOrder ==
    /\ [][\A b \in Blocks : \A t \in Tids(b) :
             Steps(b, t) =>
                /\ (pc'[b][t].at \in StopPhase /\ pc[b][t].at \notin StopPhase)
                      => is_done /\ pc[b][t].at \in {"while", "brk"}
                /\ pc[b][t].at = "stop_in" => pc'[b][t].at \in {"stop_in", "done"}]_vars
    /\ [](\A b \in Blocks : \A t \in Tids(b) :
             (threads[b][t] = "joinable" /\ pc[b][t].at \in StopPhase) =>
                LET outs == IF pc[b][t].at = "stop_out"
                            THEN FirstBuffers(buffered_sockets_out[b], pc[b][t].i - 1)
                            ELSE FirstBuffers(buffered_sockets_out[b], Len(OutKeys(b)))
                    ins == IF pc[b][t].at = "stop_out" THEN {}
                           ELSE IF pc[b][t].at = "stop_in"
                           THEN FirstBuffers(buffered_sockets_in[b], pc[b][t].i - 1)
                           ELSE FirstBuffers(buffered_sockets_in[b], Len(InKeys(b)))
                IN  \A i \in outs \cup ins : buffer[i].stopped)

\* a worker has stopped its output channel and is about to stop its input
\* channel, which is still open
C12_Witness ==
    \E b \in Blocks : \E t \in Tids(b) :
       /\ threads[b][t] = "joinable" /\ pc[b][t].at = "stop_in"
       /\ \A n \in DOMAIN buffered_sockets_out[b] : buffer[buffered_sockets_out[b][n].buffer].stopped
       /\ \E n \in DOMAIN buffered_sockets_in[b] : ~buffer[buffered_sockets_in[b][n].buffer].stopped

(* --------------------------- the channels ------------------------------- *)

\* the sockets of the task block b was constructed from
SocketsOf(b) == {hist.task[b].sockets[i] : i \in 1..Len(hist.task[b].sockets)}

\* the map of block b for the sockets of type dir
MapOf(b, dir) == IF dir = "SIN" THEN buffered_sockets_in[b] ELSE buffered_sockets_out[b]
OtherMapOf(b, dir) == IF dir = "SIN" THEN buffered_sockets_out[b] ELSE buffered_sockets_in[b]

\* C13 as stated: every socket of the task of a constructed block has one
\* channel, under its name in the map of its direction and in no other,
\* of its datatype, with a buffer of buffer_size >= n_threads, and data of
\* its own in each of the n_threads replicas.
C13_OneChannelEach ==
    \A b \in Blocks :
       exists[b] =>
          \A sck \in SocketsOf(b) :
             /\ sck.name \in DOMAIN MapOf(b, sck.type)
             /\ sck.name \notin DOMAIN OtherMapOf(b, sck.type)
             /\ MapOf(b, sck.type)[sck.name].datatype = sck.datatype
             /\ buffer[<<b, sck.type, sck.name>>].cap = buffer_size[b]
             /\ buffer_size[b] >= n_threads[b]
             /\ DOMAIN tasks[b] = 0..(n_threads[b] - 1)
             /\ \A t \in Tids(b) : sck.name \in DOMAIN tasks[b][t]

\* C14 as stated: no block exists whose task has a socket of a datatype
\* outside the six, its construction having ended with Unreachable, and a
\* bind that names such a socket ends with Unreachable.
C14_UnsupportedReported ==
    /\ \A b \in Blocks : exists[b] => \A sck \in SocketsOf(b) : sck.datatype \in Supported
    /\ (call.op = "bind"
          /\ \E sck \in SocketsOf(call.this) :
                sck.name = call.start /\ sck.type = "SIN" /\ sck.datatype \notin Supported)
       => error = Unreachable

\* the buffer behind the input channel worker t of block b is polling
Polled(b, t) == buffered_sockets_in[b][InKeys(b)[pc[b][t].i]].buffer

C16_OwnReplica ==
    /\ [](\A b \in Blocks :
             exists[b] =>
                /\ DOMAIN threads[b] = 0..(n_threads[b] - 1)
                /\ DOMAIN tasks[b] = DOMAIN threads[b]
                /\ \A t, u \in Tids(b) :
                      threads[b][t] = threads[b][u] /\ (pc[b][t].at = "idle") = (pc[b][u].at = "idle"))
    /\ [][\A b \in Blocks : \A t \in Tids(b) :
             /\ (orch'.st = "ready" /\ tasks'[b][t] # tasks[b][t]) => Steps(b, t)
             /\ Steps(b, t) =>
                   /\ \A u \in Tids(b) \ {t} : tasks'[b][u] = tasks[b][u]
                   /\ pc[b][t].at = "pop_call" /\ buffer' # buffer
                         => tasks'[b][t]["X"] = Head(buffer[Polled(b, t)].q)
                   /\ pc[b][t].at = "push_call" /\ buffer' # buffer
                         => \E i \in BufferIds :
                               buffer'[i].q = Append(buffer[i].q, tasks[b][t]["Y"])]_vars

\* the two workers of a block hold different inputs, and the second has
\* executed its own
C16_Witness ==
    \E b \in Blocks :
       /\ n_threads[b] = 2
       /\ tasks[b][0]["X"].id # 0 /\ tasks[b][1]["X"].id # 0
       /\ tasks[b][0]["X"].id # tasks[b][1]["X"].id
       /\ tasks[b][1]["Y"].id = tasks[b][1]["X"].id

C18_AfterStop ==
    /\ [](\A b \in Blocks : \A t \in Tids(b) : hist.count[b][t].late <= 1)
    /\ [][\A b \in Blocks : \A t \in Tids(b) :
             Steps(b, t) =>
                /\ pc'[b][t].at \in {"pop_call", "exec", "push_call"} => ~is_done
                /\ (is_done /\ pc[b][t].at \in {"while", "pop_chk", "brk", "push_chk"}) =>
                      /\ pc'[b][t].at \notin {"pop_call", "exec", "push_call"}
                      /\ UNCHANGED <<tasks, buffer>>
                /\ hist'.count[b][t].late > hist.count[b][t].late => pc[b][t].at = "exec"]_vars

\* a worker has called exec with the flag up and is on its way out
C18_Witness ==
    \E b \in Blocks : \E t \in Tids(b) :
       /\ is_done /\ Active(b, t)
       /\ hist.count[b][t].late = 1
       /\ pc[b][t].at \in StopPhase

\* the orchestrator's call of run() or join() on block b takes effect
RunStep(b) ==
    /\ call' = [op |-> "run", this |-> b]
    /\ call' # call \/ threads' # threads \/ orch' # orch
JoinStep(b) ==
    /\ call' = [op |-> "join", this |-> b]
    /\ call' # call \/ threads' # threads \/ error' # error

\* C19: the thread handles of a block that was never run are not joinable;
\* run() on a block with no joinable handle starts every thread and makes
\* every handle joinable, on a block with a joinable handle it ends the
\* process; join() on a block with a handle that is not joinable (never
\* run, or joined since) throws and changes nothing, otherwise it returns
\* when every thread has returned and leaves no handle joinable, so that
\* run() may follow.
C19_RunJoinAlternate ==
    /\ [](\A b \in Blocks : \A t \in Tids(b) :
             /\ pc[b][t].at = "idle" => threads[b][t] = "not_joinable"
             /\ threads[b][t] = "joinable" => pc[b][t].at # "idle")
    /\ [][\A b \in Blocks :
             /\ RunStep(b) =>
                   IF \E t \in Tids(b) : threads[b][t] = "joinable"
                   THEN orch'.st = "aborted" /\ error' = Terminated
                   ELSE /\ orch'.st = "ready" /\ error' = Ok
                        /\ \A t \in Tids(b) :
                              threads'[b][t] = "joinable" /\ pc'[b][t].at = "while"
             /\ JoinStep(b) =>
                   IF \E t \in Tids(b) : threads[b][t] # "joinable"
                   THEN error' = SystemError /\ UNCHANGED <<threads, pc, buffer, tasks>>
                   ELSE /\ error' = Ok
                        /\ \A t \in Tids(b) :
                              Returned(b, t) /\ threads'[b][t] = "not_joinable"]_vars

\* a block of two threads has been run, joined and reset, and a further
\* join() has thrown
C19_Witness ==
    /\ call.op = "join" /\ error = SystemError
    /\ n_threads[call.this] = 2
    /\ \A t \in Tids(call.this) :
          threads[call.this][t] = "not_joinable" /\ Returned(call.this, t)
    /\ hist.mark[call.this] > 0

====
